---- MODULE Spec2Model ----
(***************************************************************************)
(* A model of src/project.py: the e-mail invoice ingestion script.         *)
(*                                                                         *)
(* Strings are modelled as tuples of one-character strings, so that        *)
(* str.strip(), re.match, float() and the f-string formatting of the code  *)
(* are computed character by character.  A Python value that may be None   *)
(* is a record [some, s]: NoneV, or Just(s) for the string s.              *)
(*                                                                         *)
(* The ledger (gspread), the blob store (Drive), the mailbox (imaplib) and *)
(* the extraction service (Azure) are external; the model keeps their      *)
(* visible state (rows of each worksheet, folders, files, flags) and lets  *)
(* each call to them either succeed or raise.                              *)
(***************************************************************************)
EXTENDS Integers, Sequences, FiniteSets, TLC

VARIABLES
    pc,               \* position of the script / of the modelled function
    run,              \* number of times the script has been started
    seen,             \* messages flagged \Seen by mail.store
    email_ids,        \* result of mail.search(None, "UNSEEN") for this run
    msg_i,            \* index into email_ids (the for loop of line 495)
    part_j,           \* index into msg.walk() (the for loop of line 507)
    temp_files,       \* staging files temp_<filename> present on disk
    extracted_data,   \* result of extract_document_data for the current part
    attempted,        \* <<message, part>> whose extraction was started this run
    sheets,           \* the spreadsheet: worksheet title -> sequence of rows
    worksheet_cache,  \* titles in the module-level worksheet_cache
    folders,          \* Drive folders, in creation order: [name, parent]
    files,            \* Drive files: [name, folder]
    last_op,          \* what process_email_attachment did for the last part
    ws_title,         \* year_month: the title of the worksheet ws in use
    month_folder_id,  \* month_folder_id of line 465 (0 = not set)
    email_folder_id,  \* email_folder_id of line 468 (0 = not set)
    rl_last,          \* APIRateLimiter.last_call_time (None = -1)
    now,              \* the wall clock, in seconds
    x_pc,             \* position inside extract_document_data
    x_model,          \* the model_id of the running extract_data_with_model
    x_attempt,        \* the loop variable attempt of line 224
    x_delay,          \* retry_delay of line 222
    x_sleeps,         \* durations passed to time.sleep by line 284, in order
    x_calls,          \* the limiter and service calls, in order: [ev, out, t]
    x_invoice,        \* invoice_data of line 199
    x_receipt,        \* receipt_data of line 202
    x_result,         \* value returned by extract_document_data
    x_service,        \* model id -> the documents the service returned for it
    x_documents,      \* documents of line 233
    x_error,          \* what extract_document_data raised
    r_pc,             \* position inside retry_api_call
    r_attempt,        \* the loop variable attempt of line 59
    r_delay,          \* delay of retry_api_call, in tenths of a second
    r_sleeps,         \* durations passed to time.sleep by line 65, in order
    r_log,            \* the calls of func and the sleeps, in order
    r_error,          \* what retry_api_call raised
    p_pc,             \* position of a call of process_part made on its own
    p_part,           \* the part passed to process_part
    p_result          \* (has_attachment, filename, file_data) it returned

pipe_vars == <<pc, run, seen, email_ids, msg_i, part_j, temp_files,
               extracted_data, attempted, sheets, worksheet_cache, folders,
               files, last_op, ws_title, month_folder_id, email_folder_id>>
extract_vars == <<rl_last, now, x_pc, x_model, x_attempt, x_delay, x_sleeps,
                  x_calls, x_invoice, x_receipt, x_result, x_service,
                  x_documents, x_error>>
retry_vars == <<r_pc, r_attempt, r_delay, r_sleeps, r_log, r_error>>
part_vars == <<p_pc, p_part, p_result>>
vars == <<pipe_vars, extract_vars, retry_vars, part_vars>>

----------------------------------------------------------------------------
(* Characters and strings *)

Digits == <<"0", "1", "2", "3", "4", "5", "6", "7", "8", "9">>

IsDigit(c) == \E d \in 1..10 : Digits[d] = c

DigitVal(c) == (CHOOSE d \in 1..10 : Digits[d] = c) - 1

RECURSIVE IntToStr(_)
\* str(n) for a natural number n
IntToStr(n) ==
    IF n < 10 THEN <<Digits[n + 1]>>
    ELSE IntToStr(n \div 10) \o <<Digits[(n % 10) + 1]>>

RECURSIVE lstrip(_)
lstrip(s) == IF s # <<>> /\ Head(s) = " " THEN lstrip(Tail(s)) ELSE s

RECURSIVE rstrip(_)
rstrip(s) ==
    IF s # <<>> /\ s[Len(s)] = " " THEN rstrip(SubSeq(s, 1, Len(s) - 1)) ELSE s

\* str.strip()
strip(s) == rstrip(lstrip(s))

NoneV == [some |-> FALSE, s |-> <<>>]
Just(s) == [some |-> TRUE, s |-> s]

\* str(v) for v a string or None
py_str(v) == IF v.some THEN v.s ELSE <<"N", "o", "n", "e">>

\* Python truthiness of a string or None
truthy(v) == v.some /\ v.s # <<>>

----------------------------------------------------------------------------
(* The ledger: worksheets as sequences of rows of nine cells *)

H_Date == <<"D", "a", "t", "e">>
H_Time == <<"T", "i", "m", "e">>
H_From == <<"F", "r", "o", "m">>
H_Subject == <<"S", "u", "b", "j", "e", "c", "t">>
H_InvoiceNumber == <<"I", "n", "v", "o", "i", "c", "e", " ", "N", "u", "m", "b", "e", "r">>
H_InvoiceDate == <<"I", "n", "v", "o", "i", "c", "e", " ", "D", "a", "t", "e">>
H_InvoiceAmount == <<"I", "n", "v", "o", "i", "c", "e", " ", "A", "m", "o", "u", "n", "t">>
H_VendorName == <<"V", "e", "n", "d", "o", "r", " ", "N", "a", "m", "e">>
H_Attachment == <<"A", "t", "t", "a", "c", "h", "m", "e", "n", "t">>

\* the header row appended by get_or_create_worksheet (line 54)
HeaderRow ==
    <<H_Date, H_Time, H_From, H_Subject, H_InvoiceNumber, H_InvoiceDate,
      H_InvoiceAmount, H_VendorName, H_Attachment>>

\* the sentinel "Total Amount" of lines 327 and 385
TotalAmount == <<"T", "o", "t", "a", "l", " ", "A", "m", "o", "u", "n", "t">>

\* as append_row, with the row inserted below the header
\* (ws.insert_row(row, 2)) in place of being appended
insert_row_2(rows, row) == <<Head(rows), row>> \o Tail(rows)

\* ws.append_row(row): the row goes below the last row of the sheet
append_row(rows, row) == Append(rows, row)

\* ws.delete_rows(i), rows numbered from 1
delete_rows(rows, i) == SubSeq(rows, 1, i - 1) \o SubSeq(rows, i + 1, Len(rows))

\* ws.get_all_values()
get_all_values(rows) == rows

\* ws.get_all_records(): one record per row below row 1, keyed by row 1
get_all_records(rows) ==
    IF Len(rows) < 2 THEN <<>> ELSE SubSeq(rows, 2, Len(rows))

\* record[name]: the cell under the header cell `name`
record_get(rows, record, name) ==
    record[CHOOSE c \in 1..Len(rows[1]) : rows[1][c] = name]

\* as DeleteFirstTotalsRow, with ws.delete_rows(i) in place of
\* ws.delete_rows(i + 1): the row above the Totals Row is deleted
DeleteRowAboveTotals(rows) ==
    LET all_values == get_all_values(rows)
        hits == {i \in 1..Len(all_values) : all_values[i][1] = TotalAmount}
    IN  IF hits = {} THEN rows
        ELSE delete_rows(rows, (CHOOSE i \in hits : \A k \in hits : i <= k) - 1)

\* lines 326-329: delete the first row whose first cell is the sentinel
DeleteFirstTotalsRow(rows) ==
    LET all_values == get_all_values(rows)
        hits == {i \in 1..Len(all_values) : all_values[i][1] = TotalAmount}
    IN  IF hits = {} THEN rows
        ELSE delete_rows(rows, CHOOSE i \in hits : \A k \in hits : i <= k)

----------------------------------------------------------------------------
(* update_total_invoice_amount: parsing and summing the amounts *)

\* the character class [€£$₹] of line 346
AggregatorSymbols == {"€", "£", "$", "₹"}

IsNumChar(c) == IsDigit(c) \/ c = "," \/ c = "."

RECURSIVE NumRun(_)
\* the longest prefix of s matched by [\d,\.]+
NumRun(s) ==
    IF s # <<>> /\ IsNumChar(Head(s)) THEN <<Head(s)>> \o NumRun(Tail(s))
    ELSE <<>>

RECURSIVE RemoveCommas(_)
\* .replace(",", "")
RemoveCommas(s) ==
    IF s = <<>> THEN <<>>
    ELSE IF Head(s) = "," THEN RemoveCommas(Tail(s))
    ELSE <<Head(s)>> \o RemoveCommas(Tail(s))

\* re.match(r'([€£$₹]?)([\d,\.]+)', invoice_amount), lines 346-349
match_amount(invoice_amount) ==
    LET s == invoice_amount
        symbol == IF s # <<>> /\ s[1] \in AggregatorSymbols THEN <<s[1]>>
                  ELSE <<>>
        number == NumRun(SubSeq(s, Len(symbol) + 1, Len(s)))
    IN  [matched |-> number # <<>>,
         currency_symbol |-> symbol,
         amount_str |-> RemoveCommas(number)]

RECURSIVE DigitsToInt(_)
DigitsToInt(s) ==
    IF s = <<>> THEN 0
    ELSE DigitsToInt(SubSeq(s, 1, Len(s) - 1)) * 10 + DigitVal(s[Len(s)])

\* float(amount_str) raises ValueError unless amount_str is digits with at
\* most one point and at least one digit (amount_str holds only digits and
\* points here)
float_ok(amount_str) ==
    /\ Cardinality({i \in 1..Len(amount_str) : amount_str[i] = "."}) <= 1
    /\ \E i \in 1..Len(amount_str) : IsDigit(amount_str[i])

\* float(amount_str), in hundredths (the amounts of the model have at most
\* two decimals, so the sums and their .2f rendering are exact)
float_hundredths(amount_str) ==
    LET dots == {i \in 1..Len(amount_str) : amount_str[i] = "."}
        dot  == IF dots = {} THEN Len(amount_str) + 1 ELSE CHOOSE i \in dots : TRUE
        ip   == SubSeq(amount_str, 1, dot - 1)
        fp   == SubSeq(amount_str, dot + 1, Len(amount_str)) \o <<"0", "0">>
    IN  DigitsToInt(ip) * 100 + DigitsToInt(SubSeq(fp, 1, 2))

\* line 339: the records the loop iterates over
summed_records(records) ==
    IF records = <<>> THEN <<>> ELSE Tail(records)

\* lines 357-365: one amount added to the running totals; currency_totals is
\* a dict, kept as a sequence of <<symbol, total>> in insertion order
add_amount(totals, currency_symbol, amount) ==
    IF currency_symbol = <<>>
    THEN [totals EXCEPT !.no_currency_total = @ + amount]
    ELSE LET ct == totals.currency_totals
             at == {i \in 1..Len(ct) : ct[i][1] = currency_symbol}
         IN  IF at # {}
             THEN [totals EXCEPT !.currency_totals =
                     [i \in 1..Len(ct) |->
                        IF i \in at THEN <<ct[i][1], ct[i][2] + amount>>
                        ELSE ct[i]]]
             ELSE [totals EXCEPT !.currency_totals =
                     Append(ct, <<currency_symbol, amount>>)]

RECURSIVE accumulate(_, _, _)
\* lines 339-368 over the given records
accumulate(rows, records, totals) ==
    IF records = <<>> THEN totals
    ELSE LET invoice_amount == record_get(rows, Head(records), H_InvoiceAmount)
             m == match_amount(invoice_amount)
         IN  IF m.matched /\ float_ok(m.amount_str)
             THEN accumulate(rows, Tail(records),
                             add_amount(totals, m.currency_symbol,
                                        float_hundredths(m.amount_str)))
             ELSE accumulate(rows, Tail(records), totals)

\* f"{total:.2f}" for a total in hundredths
fmt_2f(total) ==
    IntToStr(total \div 100) \o <<".">>
        \o <<Digits[((total \div 10) % 10) + 1], Digits[(total % 10) + 1]>>

Plus == <<" ", "+", " ">>

RECURSIVE join_totals(_)
\* " + ".join([f"{symbol}{total:.2f}" for symbol, total in ...]), line 375
join_totals(ct) ==
    IF ct = <<>> THEN <<>>
    ELSE IF Len(ct) = 1 THEN ct[1][1] \o fmt_2f(ct[1][2])
    ELSE ct[1][1] \o fmt_2f(ct[1][2]) \o Plus \o join_totals(Tail(ct))

\* lines 375-379
totals_text(totals) ==
    IF totals.no_currency_total > 0
    THEN join_totals(totals.currency_totals) \o Plus
             \o fmt_2f(totals.no_currency_total)
    ELSE join_totals(totals.currency_totals)

\* lines 331-368: the totals of a sheet whose Totals Row has been deleted
sheet_totals(rows) ==
    accumulate(rows, summed_records(get_all_records(rows)),
               [currency_totals |-> <<>>, no_currency_total |-> 0])

\* line 385: the new Totals Row
TotalsRow(rows) ==
    <<TotalAmount, <<>>, <<>>, <<>>, <<>>, <<>>,
      totals_text(sheet_totals(rows)), <<>>, <<>>>>

\* update_total_invoice_amount(ws) as a whole
update_total_invoice_amount(rows) ==
    LET kept == DeleteFirstTotalsRow(rows)
    IN  append_row(kept, TotalsRow(kept))

----------------------------------------------------------------------------
(* The mailbox and the attachments *)

\* number of times the script is started
MaxRuns == 2

\* "attachment" in content_disposition (line 139), for the header values
\* the model uses
has_attachment_word(content_disposition) ==
    content_disposition \in {"attachment", "attachment; filename"}

\* process_part(part), lines 130-161: <<has_attachment, filename, file_data>>;
\* part.payload is part.get_payload(decode=True), NoneV when it cannot be
\* decoded
process_part(part) ==
    IF has_attachment_word(part.content_disposition) \/ truthy(part.filename)
    THEN IF truthy(part.filename)
         THEN [has_attachment |-> part.payload.some,
               filename |-> part.filename,
               file_data |-> part.payload]
         ELSE [has_attachment |-> FALSE,
               filename |-> part.filename,
               file_data |-> NoneV]
    ELSE [has_attachment |-> FALSE, filename |-> NoneV, file_data |-> NoneV]

Part(ct, cd, fn, payload) ==
    [content_type |-> ct, content_disposition |-> cd, filename |-> fn,
     payload |-> payload]

\* The unread messages of the inbox: the first is multipart (msg.walk()
\* yields the container, the body and two attachments), the second is a
\* single part that is itself the attachment (lines 517-526).
Inbox ==
    << [subject |-> <<"s", "1">>, from_ |-> <<"f", "1">>,
        email_date |-> <<"2", "0", "2", "4", "-", "0", "3", "-", "0", "2">>,
        email_time |-> <<"1", "0", ":", "0", "0", ":", "0", "0">>,
        parts |-> << Part("multipart/mixed", "", NoneV, NoneV),
                     Part("text/plain", "", NoneV, Just(<<"h", "i">>)),
                     Part("application/pdf", "attachment; filename",
                          Just(<<"a", ".", "p", "d", "f">>), Just(<<"%", "a">>)),
                     Part("application/pdf", "",
                          Just(<<"b", ".", "p", "d", "f">>), Just(<<"%", "b">>)) >>],
       [subject |-> <<"s", "2">>, from_ |-> <<"f", "2">>,
        email_date |-> <<"2", "0", "2", "4", "-", "0", "3", "-", "0", "5">>,
        email_time |-> <<"1", "1", ":", "3", "0", ":", "0", "0">>,
        parts |-> << Part("application/pdf", "attachment; filename",
                          Just(<<"c", ".", "p", "d", "f">>), Just(<<"%", "c">>)) >>] >>

Date1 == <<"2", "0", "2", "4", "-", "0", "1", "-", "1", "5">>
Date2 == <<"2", "0", "2", "4", "-", "0", "2", "-", "0", "3">>

Extracted(n, d, a, v) ==
    [invoice_number |-> n, invoice_date |-> d, invoice_amount |-> a,
     vendor_name |-> v]

\* What extract_document_data may return for an attachment: the four fields,
\* each a string or None.  The amounts are f"{currency_symbol}{amount}" of
\* lines 260 and 274.
ExtractionResults ==
    { Extracted(Just(<<"A", "1">>), Just(Date1), Just(<<"$", "5", ".", "0">>),
                Just(<<"V">>)),
      Extracted(NoneV, Just(Date1), Just(<<"7", ".", "0">>),
                Just(<<" ", "V">>)),
      Extracted(Just(<<"A", "1">>), NoneV, Just(<<"$", "5", ".", "0">>),
                Just(<<"V">>)),
      Extracted(Just(<<"A", "2">>), Just(Date2), Just(<<"€", "2", ".", "5">>),
                Just(<<"V">>)),
      Extracted(Just(<<"A", "3">>), Just(Date1), Just(<<"¥", "3", ".", "0">>),
                NoneV) }

NoData == Extracted(NoneV, NoneV, NoneV, NoneV)

\* datetime.strptime(s, "%Y-%m-%d") succeeds (s is a strftime("%Y-%m-%d")
\* output or str(None) here)
strptime_ok(s) ==
    /\ Len(s) = 10
    /\ s[5] = "-" /\ s[8] = "-"
    /\ \A i \in {1, 2, 3, 4, 6, 7, 9, 10} : IsDigit(s[i])
    /\ DigitsToInt(SubSeq(s, 6, 7)) \in 1..12
    /\ DigitsToInt(SubSeq(s, 9, 10)) \in 1..31

\* as year_month_of, with the format "%Y" in place of "%Y-%m"
year_of(s) == SubSeq(s, 1, 4)

\* datetime.strptime(s, "%Y-%m-%d").strftime("%Y-%m"), line 423
year_month_of(s) == SubSeq(s, 1, 7)

\* lines 413-416: the four fields coerced with str()
candidate(data) ==
    [invoice_number |-> py_str(data.invoice_number),
     invoice_date |-> py_str(data.invoice_date),
     invoice_amount |-> py_str(data.invoice_amount),
     vendor_name |-> py_str(data.vendor_name)]

\* lines 438-457: the record, stripped, equals the candidate
record_matches(rows, record, c) ==
    /\ strip(record_get(rows, record, H_InvoiceNumber)) = c.invoice_number
    /\ strip(record_get(rows, record, H_InvoiceDate)) = c.invoice_date
    /\ strip(record_get(rows, record, H_InvoiceAmount)) = c.invoice_amount
    /\ strip(record_get(rows, record, H_VendorName)) = c.vendor_name

\* as match_found, without the comparison of lines 452-460
never_found(rows, c) == FALSE

\* lines 429-460: match_found
match_found(rows, c) ==
    LET records == get_all_records(rows)
    IN  \E i \in 1..Len(records) : record_matches(rows, records[i], c)

\* the webViewLink of a Drive folder
folder_link(id) == <<"#">> \o IntToStr(id)

\* line 477: the data row
data_row(msg, c, link) ==
    <<msg.email_date, msg.email_time, msg.from_, msg.subject,
      c.invoice_number, c.invoice_date, c.invoice_amount, c.vendor_name, link>>

\* the message and the part the loops of lines 495-526 are at
cur_msg == Inbox[email_ids[msg_i]]
cur_part == cur_msg.parts[part_j]

----------------------------------------------------------------------------
(* The script: lines 488-532 and process_email_attachment, step by step *)

\* the spreadsheet with worksheet `title` holding `rows`
with_sheet(title, rows) ==
    [t \in (DOMAIN sheets) \cup {title} |->
        IF t = title THEN rows ELSE sheets[t]]

PipeInit ==
    /\ pc = "idle"
    /\ run = 0
    /\ seen = {}
    /\ email_ids = <<>>
    /\ msg_i = 1
    /\ part_j = 1
    /\ temp_files = {}
    /\ extracted_data = NoData
    /\ attempted = {}
    /\ sheets = [t \in {} |-> <<>>]
    /\ worksheet_cache = {}
    /\ folders = <<>>
    /\ files = {}
    /\ last_op = "none"
    /\ ws_title = <<>>
    /\ month_folder_id = 0
    /\ email_folder_id = 0

ExtractIdle ==
    /\ rl_last = -1
    /\ now = 0
    /\ x_pc = "off"
    /\ x_model = "none"
    /\ x_attempt = 0
    /\ x_delay = 0
    /\ x_sleeps = <<>>
    /\ x_calls = <<>>
    /\ x_invoice = NoData
    /\ x_receipt = NoData
    /\ x_result = NoData
    /\ x_service = <<>>
    /\ x_documents = <<>>
    /\ x_error = "none"

RetryIdle ==
    /\ r_pc = "off"
    /\ r_attempt = 0
    /\ r_delay = 0
    /\ r_sleeps = <<>>
    /\ r_log = <<>>
    /\ r_error = "none"

\* what process_part returns for a part that is none (lines 135-137)
NoResult == [has_attachment |-> FALSE, filename |-> NoneV, file_data |-> NoneV]

\* no call of process_part on its own is under way
PartIdle ==
    /\ p_pc = "off"
    /\ p_part = Part("", "", NoneV, NoneV)
    /\ p_result = NoResult

\* the unread messages, in mailbox order (line 492-493)
RECURSIVE unseen_from(_)
unseen_from(k) ==
    IF k > Len(Inbox) THEN <<>>
    ELSE IF k \in seen THEN unseen_from(k + 1)
    ELSE <<k>> \o unseen_from(k + 1)

\* The script starts: lines 47 (the cache is loaded with every worksheet)
\* and 489-493 (the unread messages are listed).
StartRun ==
    /\ pc \in {"idle", "done", "crashed"}
    /\ UNCHANGED <<extract_vars, retry_vars, part_vars>>
    /\ run < MaxRuns
    /\ run' = run + 1
    /\ worksheet_cache' = DOMAIN sheets
    /\ email_ids' = unseen_from(1)
    /\ msg_i' = 1
    /\ part_j' = 1
    /\ attempted' = {}
    /\ last_op' = "none"
    /\ pc' = "fetch"
    /\ UNCHANGED <<seen, temp_files, extracted_data, sheets, folders, files,
                   ws_title, month_folder_id, email_folder_id>>

\* as FetchMessage, with the message flagged \Seen when it is fetched, before
\* its parts are walked
FetchMessageAndFlag ==
    /\ pc = "fetch"
    /\ UNCHANGED <<extract_vars, retry_vars, part_vars>>
    /\ IF msg_i > Len(email_ids)
       THEN pc' = "done" /\ part_j' = part_j /\ seen' = seen
       ELSE /\ pc' = "walk" /\ part_j' = 1
            /\ seen' = seen \cup {email_ids[msg_i]}
    /\ UNCHANGED <<run, email_ids, msg_i, temp_files, extracted_data,
                   attempted, sheets, worksheet_cache, folders, files,
                   last_op, ws_title, month_folder_id, email_folder_id>>

\* lines 495-504: the next message is fetched, or the loop ends (530-532)
FetchMessage ==
    /\ pc = "fetch"
    /\ UNCHANGED <<extract_vars, retry_vars, part_vars>>
    /\ IF msg_i > Len(email_ids)
       THEN pc' = "done" /\ part_j' = part_j
       ELSE pc' = "walk" /\ part_j' = 1
    /\ UNCHANGED <<run, seen, email_ids, msg_i, temp_files, extracted_data,
                   attempted, sheets, worksheet_cache, folders, files,
                   last_op, ws_title, month_folder_id, email_folder_id>>

\* lines 507-512 (518-522): process_part, and the staging file is written
WalkPart ==
    /\ pc = "walk"
    /\ UNCHANGED <<extract_vars, retry_vars, part_vars>>
    /\ IF part_j > Len(cur_msg.parts)
       THEN /\ pc' = "store"
            /\ UNCHANGED <<part_j, temp_files, attempted>>
       ELSE LET r == process_part(cur_part)
            IN  IF r.has_attachment
                THEN /\ temp_files' = temp_files \cup {r.filename.s}
                     /\ attempted' = attempted \cup {<<email_ids[msg_i], part_j>>}
                     /\ pc' = "extract"
                     /\ part_j' = part_j
                ELSE /\ part_j' = part_j + 1
                     /\ pc' = "walk"
                     /\ UNCHANGED <<temp_files, attempted>>
    /\ UNCHANGED <<run, seen, email_ids, msg_i, extracted_data, sheets,
                   worksheet_cache, folders, files, last_op, ws_title,
                   month_folder_id, email_folder_id>>

\* lines 513-514: extract_document_data returns, and the staging file is
\* removed
ExtractReturns ==
    /\ pc = "extract"
    /\ UNCHANGED <<extract_vars, retry_vars, part_vars>>
    /\ \E d \in ExtractionResults : extracted_data' = d
    /\ temp_files' = temp_files \ {cur_part.filename.s}
    /\ pc' = "accept"
    /\ UNCHANGED <<run, seen, email_ids, msg_i, part_j, attempted, sheets,
                   worksheet_cache, folders, files, last_op, ws_title,
                   month_folder_id, email_folder_id>>

\* as ExtractRaises, with the store of line 528 reached although the
\* extraction raised (as it would be from a finally clause)
ExtractRaisesAndStores ==
    /\ pc = "extract"
    /\ UNCHANGED <<extract_vars, retry_vars, part_vars>>
    /\ pc' = "crashed"
    /\ seen' = seen \cup {email_ids[msg_i]}
    /\ UNCHANGED <<run, email_ids, msg_i, part_j, temp_files,
                   extracted_data, attempted, sheets, worksheet_cache,
                   folders, files, last_op, ws_title, month_folder_id,
                   email_folder_id>>

\* line 513: extract_document_data raises (lines 287 and 289); nothing
\* catches it, the script ends
ExtractRaises ==
    /\ pc = "extract"
    /\ UNCHANGED <<extract_vars, retry_vars, part_vars>>
    /\ pc' = "crashed"
    /\ UNCHANGED <<run, seen, email_ids, msg_i, part_j, temp_files,
                   extracted_data, attempted, sheets, worksheet_cache,
                   folders, files, last_op, ws_title, month_folder_id,
                   email_folder_id>>

\* lines 406-460: the fields are coerced, the worksheet is found or created,
\* and the candidate is compared with every record
Accept ==
    /\ pc = "accept"
    /\ UNCHANGED <<extract_vars, retry_vars, part_vars>>
    /\ LET c == candidate(extracted_data)
           ym == year_month_of(c.invoice_date)
           created == ym \notin worksheet_cache
           rows == IF created THEN <<HeaderRow>> ELSE sheets[ym]
       IN  IF c.invoice_date = <<>>
           THEN \* line 418-420
                /\ last_op' = "no_date"
                /\ pc' = "walk"
                /\ part_j' = part_j + 1
                /\ UNCHANGED <<sheets, worksheet_cache, ws_title>>
           ELSE IF ~strptime_ok(c.invoice_date)
           THEN \* line 423 raises ValueError
                /\ pc' = "crashed"
                /\ last_op' = "ValueError"
                /\ UNCHANGED <<part_j, sheets, worksheet_cache, ws_title>>
           ELSE /\ sheets' = with_sheet(ym, rows)
                /\ worksheet_cache' = worksheet_cache \cup {ym}
                /\ ws_title' = ym
                /\ IF match_found(rows, c)
                   THEN /\ last_op' = "duplicate"
                        /\ pc' = "walk"
                        /\ part_j' = part_j + 1
                   ELSE /\ pc' = "month_folder"
                        /\ UNCHANGED <<part_j, last_op>>
    /\ UNCHANGED <<run, seen, email_ids, msg_i, temp_files, extracted_data,
                   attempted, folders, files, month_folder_id,
                   email_folder_id>>

\* get_or_create_monthly_folder(year_month), lines 115-128 (folder 0 is
\* parent_folder_id)
MonthFolder ==
    /\ pc = "month_folder"
    /\ UNCHANGED <<extract_vars, retry_vars, part_vars>>
    /\ LET found == {i \in 1..Len(folders) :
                        folders[i].name = ws_title /\ folders[i].parent = 0}
       IN  IF found # {}
           THEN /\ month_folder_id' = CHOOSE i \in found : \A k \in found : i <= k
                /\ folders' = folders
           ELSE /\ folders' = Append(folders, [name |-> ws_title, parent |-> 0])
                /\ month_folder_id' = Len(folders) + 1
    /\ pc' = "email_folder"
    /\ UNCHANGED <<run, seen, email_ids, msg_i, part_j, temp_files,
                   extracted_data, attempted, sheets, worksheet_cache, files,
                   last_op, ws_title, email_folder_id>>

\* create_drive_folder(subject, month_folder_id), lines 89-96
EmailFolder ==
    /\ pc = "email_folder"
    /\ UNCHANGED <<extract_vars, retry_vars, part_vars>>
    /\ folders' = Append(folders, [name |-> cur_msg.subject,
                                   parent |-> month_folder_id])
    /\ email_folder_id' = Len(folders) + 1
    /\ pc' = "upload"
    /\ UNCHANGED <<run, seen, email_ids, msg_i, part_j, temp_files,
                   extracted_data, attempted, sheets, worksheet_cache, files,
                   last_op, ws_title, month_folder_id>>

\* as Upload, without the call of upload_to_drive: the row is appended with
\* no file in its folder
UploadSkipped ==
    /\ pc = "upload"
    /\ UNCHANGED <<extract_vars, retry_vars, part_vars>>
    /\ pc' = "append"
    /\ UNCHANGED <<run, seen, email_ids, msg_i, part_j, temp_files,
                   extracted_data, attempted, sheets, worksheet_cache,
                   folders, files, last_op, ws_title, month_folder_id,
                   email_folder_id>>

\* upload_to_drive(file_data, filename, email_folder_id), lines 98-105
Upload ==
    /\ pc = "upload"
    /\ UNCHANGED <<extract_vars, retry_vars, part_vars>>
    /\ files' = files \cup {[name |-> cur_part.filename.s,
                             folder |-> email_folder_id]}
    /\ pc' = "append"
    /\ UNCHANGED <<run, seen, email_ids, msg_i, part_j, temp_files,
                   extracted_data, attempted, sheets, worksheet_cache,
                   folders, last_op, ws_title, month_folder_id,
                   email_folder_id>>

\* line 477: ws.append_row(...)
AppendRow ==
    /\ pc = "append"
    /\ UNCHANGED <<extract_vars, retry_vars, part_vars>>
    /\ sheets' = with_sheet(ws_title,
                    append_row(sheets[ws_title],
                               data_row(cur_msg, candidate(extracted_data),
                                        folder_link(email_folder_id))))
    /\ pc' = "totals_delete"
    /\ UNCHANGED <<run, seen, email_ids, msg_i, part_j, temp_files,
                   extracted_data, attempted, worksheet_cache, folders, files,
                   last_op, ws_title, month_folder_id, email_folder_id>>

\* update_total_invoice_amount, lines 323-329
TotalsDelete ==
    /\ pc = "totals_delete"
    /\ UNCHANGED <<extract_vars, retry_vars, part_vars>>
    /\ sheets' = with_sheet(ws_title, DeleteFirstTotalsRow(sheets[ws_title]))
    /\ pc' = "totals_append"
    /\ UNCHANGED <<run, seen, email_ids, msg_i, part_j, temp_files,
                   extracted_data, attempted, worksheet_cache, folders, files,
                   last_op, ws_title, month_folder_id, email_folder_id>>

\* update_total_invoice_amount, lines 331-385
TotalsAppend ==
    /\ pc = "totals_append"
    /\ UNCHANGED <<extract_vars, retry_vars, part_vars>>
    /\ sheets' = with_sheet(ws_title,
                    append_row(sheets[ws_title], TotalsRow(sheets[ws_title])))
    /\ pc' = "merge"
    /\ UNCHANGED <<run, seen, email_ids, msg_i, part_j, temp_files,
                   extracted_data, attempted, worksheet_cache, folders, files,
                   last_op, ws_title, month_folder_id, email_folder_id>>

\* lines 388-392 and 481: the cells are merged (presentation only) and
\* process_email_attachment returns
MergeCells ==
    /\ pc = "merge"
    /\ UNCHANGED <<extract_vars, retry_vars, part_vars>>
    /\ last_op' = "appended"
    /\ part_j' = part_j + 1
    /\ pc' = "walk"
    /\ UNCHANGED <<run, seen, email_ids, msg_i, temp_files, extracted_data,
                   attempted, sheets, worksheet_cache, folders, files,
                   ws_title, month_folder_id, email_folder_id>>

\* line 528: mail.store(email_id, '+FLAGS', '\\Seen')
MarkSeen ==
    /\ pc = "store"
    /\ UNCHANGED <<extract_vars, retry_vars, part_vars>>
    /\ seen' = seen \cup {email_ids[msg_i]}
    /\ msg_i' = msg_i + 1
    /\ pc' = "fetch"
    /\ UNCHANGED <<run, email_ids, part_j, temp_files, extracted_data,
                   attempted, sheets, worksheet_cache, folders, files,
                   last_op, ws_title, month_folder_id, email_folder_id>>

\* the positions at which a call to the ledger or to the blob store is made
ApiCallPoints ==
    {"accept", "month_folder", "email_folder", "upload", "append",
     "totals_delete", "totals_append", "merge"}

\* those made on the worksheet (lines 426-429, 477, 323-392)
LedgerCallPoints ==
    {"accept", "append", "totals_delete", "totals_append", "merge"}

\* the errors such a call raises: the rate-limit error (status 429) or
\* another one
ApiErrors == {"raised 429", "raised other"}

\* A ledger or blob-store call raises; the call is made directly (no call
\* of retry_api_call exists in the file) and no try/except encloses lines
\* 495-528, so the script ends.  (In process_email_attachment the first
\* such call, line 426, comes after the date has been parsed.)
ApiRaises ==
    /\ pc \in ApiCallPoints
    /\ UNCHANGED <<extract_vars, retry_vars, part_vars>>
    /\ pc = "accept" => strptime_ok(candidate(extracted_data).invoice_date)
    /\ pc' = "crashed"
    /\ \E error \in ApiErrors : last_op' = error
    /\ UNCHANGED <<run, seen, email_ids, msg_i, part_j, temp_files,
                   extracted_data, attempted, sheets, worksheet_cache,
                   folders, files, ws_title, month_folder_id,
                   email_folder_id>>

Next ==
    \/ StartRun
    \/ FetchMessage
    \/ WalkPart
    \/ ExtractReturns
    \/ ExtractRaises
    \/ Accept
    \/ MonthFolder
    \/ EmailFolder
    \/ Upload
    \/ AppendRow
    \/ TotalsDelete
    \/ TotalsAppend
    \/ MergeCells
    \/ MarkSeen
    \/ ApiRaises

Init == PipeInit /\ ExtractIdle /\ RetryIdle /\ PartIdle

Spec == Init /\ [][Next]_vars

----------------------------------------------------------------------------
(* DocumentExtractor and APIRateLimiter: lines 164-309 *)

\* max_retries, line 221
max_retries == 3

\* the initial retry_delay, line 222
initial_retry_delay == 60

\* min_interval_seconds of recognizer_rate_limiter, line 180
min_interval_seconds == 3

\* the seconds a successful service call takes (begin_analyze_document and
\* poller.result())
CallSeconds == {1, 2}

\* the seconds since the last record_call() when a document arrives, up to
\* min_interval_seconds and more
MaxElapsed == 4

\* the HTTP status of a service call: success, quota exceeded (line 282),
\* another error
ServiceStatuses == {200, 403, 429}

\* line 282: the status that is retried
is_quota_error(status_code) == status_code = 403

\* the character class [€£$¥₹] of line 298
ExtractorSymbols == {"€", "£", "$", "¥", "₹"}

HexDigits ==
    {"0", "1", "2", "3", "4", "5", "6", "7", "8", "9",
     "a", "b", "c", "d", "e", "f", "A", "B", "C", "D", "E", "F"}

\* chr(int(h, 16)) of line 308, for the four hex digits h
unichr(h) ==
    CASE h = <<"2", "0", "A", "C">> -> "€"
      [] h = <<"0", "0", "A", "3">> -> "£"
      [] h = <<"0", "0", "2", "4">> -> "$"
      [] h = <<"0", "0", "A", "5">> -> "¥"
      [] h = <<"2", "0", "B", "9">> -> "₹"
      [] OTHER -> "chr(" \o h[1] \o h[2] \o h[3] \o h[4] \o ")"

\* the pattern of line 298 matches at position i of text
symbol_at(text, i) == text[i] \in ExtractorSymbols

escape_at(text, i) ==
    /\ i + 5 <= Len(text)
    /\ text[i] = "\\" /\ text[i + 1] = "u"
    /\ \A k \in 2..5 : text[i + k] \in HexDigits

\* get_currency_symbol(text), lines 293-309
get_currency_symbol(text) ==
    LET hits == {i \in 1..Len(text) : symbol_at(text, i) \/ escape_at(text, i)}
    IN  IF hits = {} THEN <<>>
        ELSE LET i == CHOOSE i \in hits : \A k \in hits : i <= k
             IN  IF symbol_at(text, i) THEN <<text[i]>>
                 ELSE <<unichr(SubSeq(text, i + 2, i + 5))>>

\* f"{amount}" for a float amount given in hundredths: str(5.0) = "5.0",
\* str(2.5) = "2.5", str(2.25) = "2.25"
float_str(h) ==
    IntToStr(h \div 100) \o <<".">>
        \o (IF h % 10 = 0 THEN <<Digits[((h \div 10) % 10) + 1]>>
            ELSE <<Digits[((h \div 10) % 10) + 1], Digits[(h % 10) + 1]>>)

\* a field of an analysed document that holds an amount: its source text and
\* its numeric value (in hundredths)
NoTotal == [some |-> FALSE, content |-> <<>>, amount |-> 0]
Total(content, amount) == [some |-> TRUE, content |-> content, amount |-> amount]

\* an analysed document: the fields InvoiceId, InvoiceDate / TransactionDate
\* (as strftime("%Y-%m-%d") renders it), InvoiceTotal / Total and
\* VendorName / MerchantName, each possibly missing
Doc(id, date, total, name) ==
    [id |-> id, date |-> date, total |-> total, name |-> name]

InvoiceDocs ==
    { <<>>,
      <<Doc(Just(<<"A", "1">>), NoneV,
            Total(<<"$", "1", "0", ".", "0", "0">>, 1000), NoneV)>>,
      <<Doc(Just(<<"A", "1">>), Just(Date1),
            Total(<<"7", ".", "0", "0">>, 700), Just(<<"V">>))>>,
      <<Doc(NoneV, Just(Date1), NoTotal, Just(<<>>))>> }

ReceiptDocs ==
    { <<>>,
      <<Doc(NoneV, Just(Date2), NoTotal, Just(<<"W">>))>>,
      <<Doc(NoneV, Just(Date2),
            Total(<<"\\", "u", "2", "0", "A", "C", "2", ".", "5", "0">>, 250),
            NoneV)>>,
      <<Doc(NoneV, Just(Date2), Total(<<"¥", "3", "0", "0">>, 30000),
            NoneV)>> }

RECURSIVE invoice_number_of(_, _)
\* lines 242-245: the InvoiceId of the last document of invoice_documents
invoice_number_of(docs, data) ==
    IF docs = <<>> THEN data
    ELSE invoice_number_of(Tail(docs),
                           [data EXCEPT !.invoice_number = Head(docs).id])

\* lines 256-260 and 270-274
amount_of(total, old) ==
    IF total.some
    THEN Just(get_currency_symbol(total.content) \o float_str(total.amount))
    ELSE old

RECURSIVE fields_of(_, _, _)
\* lines 248-278
fields_of(model_id, docs, data) ==
    IF docs = <<>> THEN data
    ELSE LET d == Head(docs)
             next ==
               IF model_id = "prebuilt-invoice"
               THEN [invoice_number |-> d.id,
                     invoice_date |-> d.date,
                     invoice_amount |-> amount_of(d.total, data.invoice_amount),
                     vendor_name |-> d.name]
               ELSE [invoice_number |-> data.invoice_number,
                     invoice_date |-> d.date,
                     invoice_amount |-> amount_of(d.total, data.invoice_amount),
                     vendor_name |-> d.name]
         IN  fields_of(model_id, Tail(docs), next)

\* lines 214-279: extracted_data of extract_data_with_model
model_data(model_id, documents, invoice_documents) ==
    fields_of(model_id, documents, invoice_number_of(invoice_documents, NoData))

\* as merge_field, with the test "is None" in place of "not ...": an empty
\* invoice value is kept
merge_if_none(invoice_value, receipt_value) ==
    IF ~invoice_value.some THEN receipt_value ELSE invoice_value

\* lines 205-209: one field of the merge
merge_field(invoice_value, receipt_value) ==
    IF ~truthy(invoice_value) THEN receipt_value ELSE invoice_value

\* lines 205-211
merge(invoice_data, receipt_data) ==
    [invoice_number |-> merge_field(invoice_data.invoice_number,
                                    receipt_data.invoice_number),
     invoice_date |-> merge_field(invoice_data.invoice_date,
                                  receipt_data.invoice_date),
     invoice_amount |-> merge_field(invoice_data.invoice_amount,
                                    receipt_data.invoice_amount),
     vendor_name |-> merge_field(invoice_data.vendor_name,
                                 receipt_data.vendor_name)]

\* an entry of x_calls: what was called, its status or argument, during
\* which extract_data_with_model, at what time
Event(ev, out) == [ev |-> ev, out |-> out, m |-> x_model, t |-> now]

\* extract_document_data is called (line 513), and with it
\* extract_data_with_model for the invoice model (line 199)
StartExtract ==
    /\ x_pc = "off"
    /\ r_pc = "off"
    /\ x_pc' = "wait"
    /\ x_model' = "prebuilt-invoice"
    /\ x_attempt' = 0
    /\ x_delay' = initial_retry_delay
    /\ UNCHANGED <<rl_last, now, x_sleeps, x_calls, x_invoice, x_receipt,
                   x_result, x_service, x_documents, x_error, part_vars, pipe_vars,
                   retry_vars>>

\* line 226: recognizer_rate_limiter.wait_if_needed(), lines 169-174
WaitIfNeeded ==
    /\ x_pc = "wait"
    /\ LET wait_time == min_interval_seconds - (now - rl_last)
       IN  now' = IF rl_last # -1 /\ wait_time > 0 THEN now + wait_time ELSE now
    /\ x_calls' = Append(x_calls, Event("wait_if_needed", 0))
    /\ x_pc' = "analyze"
    /\ UNCHANGED <<rl_last, x_model, x_attempt, x_delay, x_sleeps, x_invoice,
                   x_receipt, x_result, x_service, x_documents, x_error,
                   part_vars, pipe_vars, retry_vars>>

\* analyze(model_id): the documents the service finds in the file with the
\* model; the same file and model give the same documents again
documents_for(model_id) ==
    IF model_id \in DOMAIN x_service THEN {x_service[model_id]}
    ELSE IF model_id = "prebuilt-invoice" THEN InvoiceDocs
    ELSE ReceiptDocs

\* lines 228-233: begin_analyze_document(model_id, ...), record_call() and
\* poller.result(); or HttpResponseError is raised and handled by lines
\* 281-287
Analyze ==
    /\ x_pc = "analyze"
    /\ \E status \in ServiceStatuses :
          IF status = 200
          THEN /\ x_calls' = x_calls \o <<Event("begin_analyze_document", status),
                                          Event("record_call", 0)>>
               /\ rl_last' = now
               /\ \E d \in CallSeconds : now' = now + d
               /\ \E docs \in documents_for(x_model) :
                     /\ x_documents' = docs
                     /\ x_service' = (x_model :> docs) @@ x_service
               /\ x_pc' = "analyze_invoice"
               /\ x_error' = x_error
          ELSE /\ x_calls' = Append(x_calls, Event("begin_analyze_document", status))
               /\ x_pc' = IF is_quota_error(status) THEN "backoff" ELSE "raised"
               /\ x_error' = IF is_quota_error(status) THEN x_error
                             ELSE "HttpResponseError"
               /\ UNCHANGED <<rl_last, now, x_documents, x_service>>
    /\ UNCHANGED <<x_model, x_attempt, x_delay, x_sleeps, x_invoice, x_receipt,
                   x_result, part_vars, pipe_vars, retry_vars>>

\* lines 236-279: the second begin_analyze_document, with the invoice model,
\* and the fields are read; extract_data_with_model returns to line 199 or
\* to lines 202-211
AnalyzeInvoice ==
    /\ x_pc = "analyze_invoice"
    /\ \E status \in ServiceStatuses :
          /\ x_calls' = Append(x_calls, Event("begin_analyze_document", status))
          /\ IF status = 200
             THEN LET data == model_data(x_model, x_documents,
                                         x_service["prebuilt-invoice"])
                  IN  /\ \E d \in CallSeconds : now' = now + d
                      /\ IF x_model = "prebuilt-invoice"
                         THEN /\ x_invoice' = data
                              /\ x_model' = "prebuilt-receipt"
                              /\ x_attempt' = 0
                              /\ x_delay' = initial_retry_delay
                              /\ x_sleeps' = <<>>
                              /\ x_pc' = "wait"
                              /\ UNCHANGED <<x_receipt, x_result>>
                         ELSE /\ x_receipt' = data
                              /\ x_result' = merge(x_invoice, data)
                              /\ x_pc' = "returned"
                              /\ UNCHANGED <<x_invoice, x_model, x_attempt,
                                             x_delay, x_sleeps>>
                      /\ x_error' = x_error
             ELSE /\ x_pc' = IF is_quota_error(status) THEN "backoff"
                             ELSE "raised"
                  /\ x_error' = IF is_quota_error(status) THEN x_error
                                ELSE "HttpResponseError"
                  /\ UNCHANGED <<now, x_invoice, x_receipt, x_result, x_model,
                                 x_attempt, x_delay, x_sleeps>>
    /\ UNCHANGED <<rl_last, x_service, x_documents, part_vars, pipe_vars, retry_vars>>

\* lines 283-285, then the next attempt of line 224 or line 289
Backoff ==
    /\ x_pc = "backoff"
    /\ x_sleeps' = Append(x_sleeps, x_delay)
    /\ x_calls' = Append(x_calls, Event("time.sleep", x_delay))
    /\ now' = now + x_delay
    /\ x_delay' = x_delay * 2
    /\ x_attempt' = x_attempt + 1
    /\ IF x_attempt + 1 < max_retries
       THEN x_pc' = "wait" /\ x_error' = x_error
       ELSE x_pc' = "raised" /\ x_error' = "Quota exceeded and retry attempts failed."
    /\ UNCHANGED <<rl_last, x_model, x_invoice, x_receipt, x_result,
                   x_service, x_documents, part_vars, pipe_vars, retry_vars>>

----------------------------------------------------------------------------
(* retry_api_call: lines 58-70 *)

\* the defaults of line 58
retries == 5
delay == 10
backoff == 2

\* as JitterTenths, for random.uniform(-1, 1)
JitterBothWays == {-9, 9}

\* random.uniform(0, 1) of line 67, in tenths of a second
JitterTenths == {0, 9}

\* what func(*args) does: it returns (200), or raises gspread's APIError
\* with the status 429 or 403, or raises something else (0)
FuncOutcomes == {200, 429, 403, 0}

\* as is_rate_limit_error, without the test of line 63: every APIError is
\* retried
is_any_api_error(status_code) == TRUE

\* line 63: the status that is retried
is_rate_limit_error(status_code) == status_code = 429

\* retry_api_call(func, *args) is called; r_delay is in tenths of a second
StartRetry ==
    /\ r_pc = "off"
    /\ x_pc = "off"
    /\ r_pc' = "call"
    /\ r_attempt' = 0
    /\ r_delay' = delay * 10
    /\ r_sleeps' = <<>>
    /\ r_log' = <<>>
    /\ r_error' = "none"
    /\ UNCHANGED <<part_vars, pipe_vars, extract_vars>>

\* lines 59-70: one attempt
RetryCall ==
    /\ r_pc = "call"
    /\ \E out \in FuncOutcomes :
          IF out = 200
          THEN /\ r_log' = Append(r_log, [ev |-> "func", out |-> out])
               /\ r_pc' = "returned"
               /\ UNCHANGED <<r_attempt, r_delay, r_sleeps, r_error>>
          ELSE IF out # 0 /\ is_rate_limit_error(out)
          THEN /\ r_log' = r_log \o <<[ev |-> "func", out |-> out],
                                      [ev |-> "time.sleep", out |-> r_delay]>>
               /\ r_sleeps' = Append(r_sleeps, r_delay)
               /\ \E jitter \in JitterTenths :
                     r_delay' = r_delay * backoff + jitter
               /\ r_attempt' = r_attempt + 1
               /\ IF r_attempt + 1 < retries
                  THEN r_pc' = "call" /\ r_error' = r_error
                  ELSE /\ r_pc' = "raised"
                       /\ r_error' = "Failed to complete API call after multiple attempts"
          ELSE /\ r_log' = Append(r_log, [ev |-> "func", out |-> out])
               /\ r_pc' = "raised"
               /\ r_error' = IF out = 0 THEN "Exception" ELSE "APIError"
               /\ UNCHANGED <<r_attempt, r_delay, r_sleeps>>
    /\ UNCHANGED <<part_vars, pipe_vars, extract_vars>>

NextCalls ==
    \/ StartRetry
    \/ RetryCall
    \/ StartExtract
    \/ WaitIfNeeded
    \/ Analyze
    \/ AnalyzeInvoice
    \/ Backoff

\* the limiter as an earlier document left it: no call recorded yet, or one
\* recorded up to MaxElapsed seconds ago
LimiterInit ==
    /\ now = MaxElapsed
    /\ rl_last \in {-1} \cup (0..MaxElapsed)
    /\ x_pc = "off"
    /\ x_model = "none"
    /\ x_attempt = 0
    /\ x_delay = 0
    /\ x_sleeps = <<>>
    /\ x_calls = <<>>
    /\ x_invoice = NoData
    /\ x_receipt = NoData
    /\ x_result = NoData
    /\ x_service = <<>>
    /\ x_documents = <<>>
    /\ x_error = "none"

InitCalls == PipeInit /\ LimiterInit /\ RetryIdle /\ PartIdle

\* retry_api_call and extract_document_data, each called on its own
SpecCalls == InitCalls /\ [][NextCalls]_vars

----------------------------------------------------------------------------
(* process_part on the parts a message can hold: lines 130-161 *)

ContentTypes ==
    {"text/plain", "text/html", "application/pdf", "multipart/mixed"}

\* Content-Disposition headers: none, inline or attachment, with or
\* without a filename parameter
ContentDispositions ==
    {"", "inline", "inline; filename", "attachment", "attachment; filename"}

\* part.get_filename(): None, or the filename parameter of the
\* Content-Disposition header or the name parameter of Content-Type
Filenames == {NoneV, Just(<<>>), Just(<<"n", ".", "t", "x", "t">>)}

\* part.get_payload(decode=True): None for a multipart container
Payloads == {NoneV, Just(<<"h", "i">>)}

Parts ==
    {q \in {Part(ct, cd, fn, payload) :
                ct \in ContentTypes, cd \in ContentDispositions,
                fn \in Filenames, payload \in Payloads} :
        /\ q.content_disposition \in {"inline; filename", "attachment; filename"}
              => q.filename.some
        /\ q.content_type = "multipart/mixed" => ~q.payload.some}

\* line 508 (519): process_part(part) is called and returns
ProcessPart ==
    /\ p_pc = "call"
    /\ p_result' = process_part(p_part)
    /\ p_pc' = "returned"
    /\ UNCHANGED <<p_part, pipe_vars, extract_vars, retry_vars>>

\* line 507: msg.walk() yields the next part
NextPart ==
    /\ p_pc = "returned"
    /\ \E q \in Parts : p_part' = q
    /\ p_result' = NoResult
    /\ p_pc' = "call"
    /\ UNCHANGED <<pipe_vars, extract_vars, retry_vars>>

NextParts ==
    \/ ProcessPart
    \/ NextPart

InitParts ==
    /\ PipeInit /\ ExtractIdle /\ RetryIdle
    /\ p_pc = "call"
    /\ p_part \in Parts
    /\ p_result = NoResult

\* process_part called on each part of a message
SpecParts == InitParts /\ [][NextParts]_vars

----------------------------------------------------------------------------
(* Properties of the ledger *)

\* the four extracted fields of a row: the dedup key
key_of(row) == <<row[5], row[6], row[7], row[8]>>

key_of_candidate(c) ==
    <<c.invoice_number, c.invoice_date, c.invoice_amount, c.vendor_name>>

\* the positions of the data rows of a sheet: below the header, not a
\* Totals Row
data_rows(rows) == {i \in 2..Len(rows) : rows[i][1] # TotalAmount}

totals_rows(rows) == {i \in 1..Len(rows) : rows[i][1] = TotalAmount}

\* C1 (Idempotence): when process_email_attachment has decided to insert
\* (no match was found), the target partition holds no data row with the
\* candidate's four fields; so a second run with the same four fields
\* appends nothing, whatever the fields are.
C1_SecondRunAppendsNothing ==
    pc = "month_folder" =>
        \A i \in data_rows(sheets[ws_title]) :
            key_of(sheets[ws_title][i])
                # key_of_candidate(candidate(extracted_data))

\* C2 (Dedup-key invariant): no partition holds two data rows with the same
\* (invoice number, invoice date, invoice amount, vendor name).
C2_DedupKeyInvariant ==
    \A t \in DOMAIN sheets :
        \A i, k \in data_rows(sheets[t]) :
            i # k => key_of(sheets[t][i]) # key_of(sheets[t][k])

\* the states in which the last insertion into worksheet ws_title is
\* complete: the Totals Row has been appended and the sheet has not been
\* touched since
InsertionComplete ==
    \/ pc = "merge"
    \/ last_op = "appended" /\ pc \in {"walk", "extract", "accept", "store",
                                       "fetch", "done"}

\* C3 (Totals Row invariant): after an accepted insertion, once
\* update_total_invoice_amount has appended the Totals Row, the partition has
\* exactly one row whose first cell is "Total Amount", and it is the last.
C3_TotalsRowInvariant ==
    InsertionComplete =>
        totals_rows(sheets[ws_title]) = {Len(sheets[ws_title])}

\* the case of C3: a later insertion, with the new data row appended after
\* the previous Totals Row, has completed
C3_Witness ==
    /\ pc = "merge"
    /\ Cardinality(data_rows(sheets[ws_title])) >= 2
    /\ Len(sheets[ws_title]) = Cardinality(data_rows(sheets[ws_title])) + 2

\* the totals over every data row of a sheet, the first one included
full_totals(rows) ==
    accumulate(rows, get_all_records(rows),
               [currency_totals |-> <<>>, no_currency_total |-> 0])

\* C4 (Full recomputation): the sums written in the Totals Row are the sums
\* over all the data rows of the partition, the first one included.
C4_TotalsOverAllRows ==
    pc = "merge" =>
        LET rows == sheets[ws_title]
            kept == SubSeq(rows, 1, Len(rows) - 1)
        IN  rows[Len(rows)][7] = totals_text(full_totals(kept))

RECURSIVE join_terms(_)
\* the terms with " + " between consecutive terms only
join_terms(terms) ==
    IF terms = <<>> THEN <<>>
    ELSE IF Len(terms) = 1 THEN terms[1]
    ELSE terms[1] \o Plus \o join_terms(Tail(terms))

\* the terms of a Totals text: one per currency symbol in first-seen order,
\* then the no-symbol term if the no-symbol sum is not zero
terms_of(totals) ==
    [i \in 1..Len(totals.currency_totals) |->
        totals.currency_totals[i][1] \o fmt_2f(totals.currency_totals[i][2])]
    \o (IF totals.no_currency_total # 0
        THEN <<fmt_2f(totals.no_currency_total)>> ELSE <<>>)

\* C5 (Totals text format): the Totals text is its terms with " + " only
\* between consecutive terms (the terms being those of the sums the code
\* accumulated).
C5_TotalsTextFormat ==
    pc = "merge" =>
        LET rows == sheets[ws_title]
            kept == SubSeq(rows, 1, Len(rows) - 1)
        IN  rows[Len(rows)][7] = join_terms(terms_of(sheet_totals(kept)))

\* the attachments of the messages listed for this run
run_attachments ==
    {<<email_ids[i], j>> : i \in 1..Len(email_ids), j \in 1..4} \cap
    {a \in (1..Len(Inbox)) \X (1..4) :
        /\ a[2] <= Len(Inbox[a[1]].parts)
        /\ process_part(Inbox[a[1]].parts[a[2]]).has_attachment}

\* C6 (Failure isolation): when the run has ended, every attachment of every
\* message of email_ids has been processed in it: an error aborts only the
\* attachment it occurs in.
C6_FailureIsolation ==
    pc \in {"done", "crashed"} => run_attachments \subseteq attempted

\* C7 (Missing invoice date): with extracted_data['invoice_date'] None,
\* process_email_attachment returns without raising, changes nothing in the
\* ledger or the blob store, and the next part is processed.
C7_MissingDateSkipped ==
    [][(pc = "accept" /\ ~extracted_data.invoice_date.some) =>
          /\ pc' = "walk"
          /\ part_j' = part_j + 1
          /\ UNCHANGED <<sheets, folders, files>>]_vars

----------------------------------------------------------------------------
(* Properties of the retry loops and of the rate limiter *)

\* the positions in x_calls of the service invocations
invocations == {i \in 1..Len(x_calls) : x_calls[i].ev = "begin_analyze_document"}

\* those made during the running extract_data_with_model
model_invocations == {i \in invocations : x_calls[i].m = x_model}

QuotaExhausted == "Quota exceeded and retry attempts failed."

\* C8 (Extraction backoff progression): when every call of one model has
\* failed with the quota error and extract_data_with_model raises, the
\* service was invoked at most max_retries times and the sleeps were 60 s,
\* then 120 s; and a call that succeeds on attempt k returns after k-1
\* sleeps.
C8_BackoffProgression ==
    /\ (/\ x_pc = "raised"
        /\ x_error = QuotaExhausted
        /\ \A i \in model_invocations : x_calls[i].out = 403)
       => /\ Cardinality(model_invocations) <= max_retries
          /\ x_sleeps = <<initial_retry_delay, 2 * initial_retry_delay>>
    /\ x_pc = "returned" => Len(x_sleeps) = x_attempt

\* C9 (Only quota/rate errors are retried): in retry_api_call a status other
\* than 429, and in extract_data_with_model a status other than 403, is
\* raised at its first occurrence: the failed call is the last entry of the
\* log (no sleep and no further invocation follow it) and the function has
\* raised that error.
C9_OnlyQuotaErrorsRetried ==
    /\ \A i \in invocations :
          x_calls[i].out \notin {200, 403} =>
              /\ i = Len(x_calls)
              /\ x_pc = "raised"
              /\ x_error = "HttpResponseError"
    /\ \A i \in 1..Len(r_log) :
          (r_log[i].ev = "func" /\ r_log[i].out \notin {200, 429}) =>
              /\ i = Len(r_log)
              /\ r_pc = "raised"
              /\ r_error = IF r_log[i].out = 0 THEN "Exception" ELSE "APIError"

\* the case of C9 in extract_data_with_model: another error than the quota
\* error arrives after quota errors have been retried
C9_Witness ==
    /\ x_pc = "raised"
    /\ x_error = "HttpResponseError"
    /\ x_sleeps # <<>>
    /\ x_calls[Len(x_calls)].out = 429

\* the case of C9 in retry_api_call: another error than 429 arrives after
\* 429 has been retried
C9_WitnessRetryApiCall ==
    /\ r_pc = "raised"
    /\ r_error = "APIError"
    /\ r_sleeps # <<>>
    /\ r_log[Len(r_log)].out = 403

\* C10 (Rate limiting covers every service call): every invocation of
\* begin_analyze_document is immediately preceded by wait_if_needed() and,
\* when it returns, immediately followed by record_call(); and two
\* consecutive invocations are at least min_interval_seconds apart.
C10_EveryCallRateLimited ==
    /\ \A i \in invocations :
          /\ i > 1 /\ x_calls[i - 1].ev = "wait_if_needed"
          /\ x_calls[i].out = 200 =>
                 (i < Len(x_calls) /\ x_calls[i + 1].ev = "record_call")
    /\ \A i, k \in invocations :
          (i < k /\ \A n \in invocations : ~(i < n /\ n < k)) =>
              x_calls[k].t - x_calls[i].t >= min_interval_seconds

----------------------------------------------------------------------------
(* Properties of the script: what an attachment leaves behind *)

C12_PartitionRouting ==
    \A t \in DOMAIN sheets :
        \A i \in data_rows(sheets[t]) :
            /\ strptime_ok(sheets[t][i][6])
            /\ SubSeq(sheets[t][i][6], 1, 7) = t

\* the case of C12: two partitions hold data rows, and a row's partition is
\* not the year-month of its email's date
C12_Witness ==
    /\ \E t, u \in DOMAIN sheets :
          t # u /\ data_rows(sheets[t]) # {} /\ data_rows(sheets[u]) # {}
    /\ \E t \in DOMAIN sheets :
          \E i \in data_rows(sheets[t]) : SubSeq(sheets[t][i][1], 1, 7) # t

----------------------------------------------------------------------------
(* Properties of extract_document_data *)

\* the field of the invoice model's data if it is present and not empty,
\* otherwise the field of the receipt model's data
fallback(invoice_value, receipt_value) ==
    IF invoice_value.some /\ invoice_value.s # <<>>
    THEN invoice_value ELSE receipt_value

\* C13 (Fallback merge): when extract_document_data returns, each of the
\* four fields is the invoice-model value if that is present and non-empty,
\* and otherwise the receipt-model value (None if that is None too).
C13_FallbackMerge ==
    x_pc = "returned" =>
        /\ x_result.invoice_number
              = fallback(x_invoice.invoice_number, x_receipt.invoice_number)
        /\ x_result.invoice_date
              = fallback(x_invoice.invoice_date, x_receipt.invoice_date)
        /\ x_result.invoice_amount
              = fallback(x_invoice.invoice_amount, x_receipt.invoice_amount)
        /\ x_result.vendor_name
              = fallback(x_invoice.vendor_name, x_receipt.vendor_name)

\* the case of C13: the invoice model gave the number and the amount only,
\* the receipt model the date and the vendor, and the result has all four
C13_Witness ==
    /\ x_pc = "returned"
    /\ x_invoice = Extracted(Just(<<"A", "1">>), NoneV,
                             Just(<<"$", "1", "0", ".", "0">>), NoneV)
    /\ x_receipt.invoice_date = Just(Date2)
    /\ x_receipt.invoice_amount = NoneV
    /\ x_receipt.vendor_name = Just(<<"W">>)
    /\ x_result = Extracted(Just(<<"A", "1">>), Just(Date2),
                            Just(<<"$", "1", "0", ".", "0">>), Just(<<"W">>))

\* the case of C13 with an empty invoice value: the receipt value is taken
C13_WitnessEmpty ==
    /\ x_pc = "returned"
    /\ x_invoice.vendor_name = Just(<<>>)
    /\ x_result.vendor_name = Just(<<"W">>)
    /\ x_result.invoice_date = Just(Date1)

----------------------------------------------------------------------------
(* Properties of the script: what is kept and what is left alone *)

\* the data rows of a sheet, in their order
data_seq(rows) ==
    SelectSeq(Tail(rows), LAMBDA row : row[1] # TotalAmount)

\* `rows` without one of its "Total Amount" rows
without_a_totals_row(rows) ==
    {SubSeq(rows, 1, i - 1) \o SubSeq(rows, i + 1, Len(rows)) :
        i \in totals_rows(rows)}

\* C14 (Append-only ledger): in every step that changes the spreadsheet,
\* every worksheet stays, the first row of every worksheet after the step
\* is the header with the nine column names (a new worksheet's too), the
\* data rows of each worksheet stay, unchanged and in their order, at the
\* front of its data rows after the step, and if the step removes a row,
\* it removes one row and that is a "Total Amount" row.
C14_AppendOnlyLedger ==
    [][\/ sheets' = sheets
       \/ /\ \A t \in DOMAIN sheets' : sheets'[t][1] = HeaderRow
          /\ \A t \in DOMAIN sheets :
                LET before == data_seq(sheets[t])
                    after == IF t \in DOMAIN sheets'
                             THEN data_seq(sheets'[t]) ELSE <<>>
                IN  /\ t \in DOMAIN sheets'
                    /\ Len(after) >= Len(before)
                    /\ SubSeq(after, 1, Len(before)) = before
                    /\ Len(sheets'[t]) < Len(sheets[t]) =>
                          sheets'[t] \in without_a_totals_row(sheets[t])]_vars

\* the case of C14: in one run, a second row has been appended to a
\* worksheet below the Totals Row of the first, and that Totals Row has
\* been deleted
C14_Witness ==
    /\ run = 1
    /\ pc = "totals_append"
    /\ Len(data_seq(sheets[ws_title])) >= 2
    /\ totals_rows(sheets[ws_title]) = {}

\* C15 (Staging cleanup): a staging file exists only while the extraction
\* of its attachment is running; once extract_document_data has ended,
\* with a result or with an exception, there is none.
C15_StagingCleanup ==
    pc # "extract" => temp_files = {}

\* a data row of the candidate's partition equals the candidate in the four
\* fields, as line 439-457 compare them
duplicate_exists ==
    LET c == candidate(extracted_data)
        t == SubSeq(c.invoice_date, 1, 7)
    IN  /\ strptime_ok(c.invoice_date)
        /\ t \in DOMAIN sheets
        /\ \E i \in data_rows(sheets[t]) :
              <<strip(sheets[t][i][5]), strip(sheets[t][i][6]),
                strip(sheets[t][i][7]), strip(sheets[t][i][8])>>
                  = key_of_candidate(c)

\* C17 (Duplicate is a no-op): when process_email_attachment runs its dedup
\* check and a matching row exists, it returns at once: no worksheet
\* changes (no row appended, no Totals Row deleted or rewritten), no Drive
\* folder is created and no file is uploaded.
C17_DuplicateIsNoOp ==
    [][(pc = "accept" /\ pc' # "crashed" /\ duplicate_exists) =>
          /\ UNCHANGED <<sheets, folders, files>>
          /\ pc' = "walk"
          /\ part_j' = part_j + 1
          /\ last_op' = "duplicate"]_vars

\* the case of C17: a duplicate has just been skipped, the partition and
\* the blob store holding the first copy
C17_Witness ==
    /\ pc = "walk"
    /\ last_op = "duplicate"
    /\ data_rows(sheets[ws_title]) # {}
    /\ files # {}

\* C16 (Ledger calls are retried): a rate-limit error (429) of a ledger
\* call of process_email_attachment or update_total_invoice_amount ends
\* the attachment only after retry_api_call has retried the call and used
\* up its attempts.
C16_LedgerCallsRetried ==
    [][(pc \in LedgerCallPoints /\ pc' = "crashed"
            /\ last_op' = "raised 429") =>
          /\ r_pc' = "raised"
          /\ r_attempt' = retries]_vars

----------------------------------------------------------------------------
(* Properties of process_part *)

\* C18 (Text parts are never attachments): for a part whose content type is
\* text/plain or text/html, process_part returns has_attachment = False,
\* whether or not the part has a filename or an inline disposition.
C18_TextPartsNeverAttachments ==
    (p_pc = "returned" /\ p_part.content_type \in {"text/plain", "text/html"})
        => ~p_result.has_attachment

----------------------------------------------------------------------------
(* Properties of retry_api_call and of the amounts *)

\* the positions in r_log of the calls of func
func_calls == {i \in 1..Len(r_log) : r_log[i].ev = "func"}

RetryExhausted == "Failed to complete API call after multiple attempts"

\* C19 (retry_api_call is bounded): func is called at most `retries` times,
\* and when all of these calls failed with 429, retry_api_call has raised;
\* the first sleep is `delay`, each later sleep is the previous one times
\* `backoff` plus a jitter in [0, 1) seconds; and when a call succeeds on
\* attempt k, retry_api_call returns after exactly k-1 sleeps.  (Durations
\* are in tenths of a second.)
C19_RetryBounded ==
    /\ Cardinality(func_calls) <= retries
    /\ (/\ Cardinality(func_calls) = retries
        /\ \A i \in func_calls : r_log[i].out = 429)
       => r_pc = "raised" /\ r_error = RetryExhausted
    /\ r_sleeps # <<>> => r_sleeps[1] = delay * 10
    /\ \A i \in 1..(Len(r_sleeps) - 1) :
          /\ r_sleeps[i + 1] >= backoff * r_sleeps[i]
          /\ r_sleeps[i + 1] < backoff * r_sleeps[i] + 10
    /\ r_pc = "returned" =>
          /\ r_log[Len(r_log)] = [ev |-> "func", out |-> 200]
          /\ Len(r_sleeps) = Cardinality(func_calls) - 1

\* the case of C19: every one of the `retries` calls failed with 429 and
\* retry_api_call has raised
C19_Witness ==
    /\ r_pc = "raised"
    /\ r_error = RetryExhausted
    /\ Cardinality(func_calls) = retries
    /\ \E i \in 1..(Len(r_sleeps) - 1) : r_sleeps[i + 1] > backoff * r_sleeps[i]

\* the case of C19 in which the third call succeeds, after two sleeps
C19_WitnessSuccess ==
    /\ r_pc = "returned"
    /\ Cardinality(func_calls) = 3
    /\ Len(r_sleeps) = 2

\* C20 (Extractor and aggregator agree on currency symbols): the amount
\* string extract_document_data returns is parsed whole by line 346-352 of
\* update_total_invoice_amount: the pattern matches, its two groups are the
\* symbol and the number the string is made of, and float() accepts the
\* number; so the amount is added to the total of its symbol.
C20_SymbolsAgree ==
    (x_pc = "returned" /\ x_result.invoice_amount.some) =>
        LET invoice_amount == py_str(x_result.invoice_amount)
            m == match_amount(invoice_amount)
        IN  /\ m.matched
            /\ float_ok(m.amount_str)
            /\ m.currency_symbol \o m.amount_str = invoice_amount

----------------------------------------------------------------------------
(* Properties of the script: the order of effects *)

\* the Drive folders a link can refer to
folder_ids == 1..Len(folders)

\* the attachment link of `row` refers to an existing folder that lies in
\* the monthly folder named `t` and holds a file
link_resolves(fs, fl, t, row) ==
    \E id \in 1..Len(fs) :
        /\ row[9] = <<"#">> \o IntToStr(id)
        /\ fs[id].parent \in 1..Len(fs)
        /\ fs[fs[id].parent] = [name |-> t, parent |-> 0]
        /\ \E f \in fl : f.folder = id

attachments_of(m) ==
    {j \in 1..Len(Inbox[m].parts) :
        process_part(Inbox[m].parts[j]).has_attachment}

====
